---- MODULE Spec2Model ----
(***************************************************************************)
(* Overload resolution and dispatch of Robin's OverloadedSet               *)
(* (reflection/overloadedset.cc, release 1.0.2): the candidate lists, the  *)
(* process-wide resolution cache, and OverloadedSet::call with its cache   *)
(* probe, its tournament over the alternatives and its verdict.            *)
(*                                                                         *)
(* Candidates are identified by their 0-based index in m_alternatives, as  *)
(* the code does when it stores cached_alt; a candidate's value is its     *)
(* signature (a sequence of formal types).                                 *)
(***************************************************************************)
EXTENDS Integers, Sequences, FiniteSets, TLC

VARIABLES
    m_alternatives,   \* address -> the candidate list of the set living there
    live,             \* address -> whether a constructed set lives there
    actual_cache,     \* the entries of the process-wide cache
    last,             \* the record of the most recent operation
    heap,             \* the key arrays remember allocated and nothing freed yet
    pending           \* thread -> the call it is in the middle of

vars == <<m_alternatives, live, actual_cache, last, heap, pending>>

----------------------------------------------------------------------------
(* Bounds of the model. *)

MaxAlts == 2       \* candidates held by the live sets together (Spec)
MaxList == 3       \* length of the registered list (SpecResolve)
MaxEntries == 1    \* cache entries (Spec, SpecResolve)
MaxPrints == 2     \* cache entries (SpecFingerprint)
MaxKeyArgs == 2    \* arity of the keys compared (SpecKeys)

(* Program constants. *)

ARGUMENT_ARRAY_LIMIT == 12
INFINITE == 1000          \* Conversion::Weight::INFINITE, above every real weight
MISSED == -9              \* (unsigned int)-9; no candidate index equals it
IMPOSSIBLE == -1          \* (unsigned int)-1

Addresses == {1, 2}
NULL == -1                \* the empty Handle<CFunction>: no index of a list

----------------------------------------------------------------------------
(* The frontend and the conversion table: collaborators of the dispatcher. *)

ActualTypes == {"X"}
InsightValues == {0, 1}
Formals == {"F0", "F1", "G1", "F2", "FN"}

\* A scripting value, as far as the dispatcher sees it: what the frontend
\* detects on it.
Values == [type : ActualTypes, insight : InsightValues]

detectType(v) == v.type
detectInsight(v) == v.insight

\* A conversion route from an actual type to a formal type.
Route(from, to) == [from |-> from, to |-> to]

\* Whether the table holds a route; FN is reachable from nothing.
RouteExists(from, to) == to # "FN"

\* ConversionRoute::totalWeight(insight): the weight of the route, which may
\* branch on the insight, up to INFINITE.
totalWeight(route, insight) ==
    CASE route.to = "F0" -> IF insight = 0 THEN 0 ELSE 1
      [] route.to = "F1" -> IF insight = 0 THEN 1 ELSE INFINITE
      [] route.to = "G1" -> IF insight = 0 THEN 1 ELSE INFINITE
      [] route.to = "F2" -> IF insight = 0 THEN 2 ELSE 0
      [] OTHER -> INFINITE

\* Conversion::Weight::operator< and isPossible.
WeightLess(w1, w2) == w1 < w2
isPossible(w) == w < INFINITE

\* ConversionTable::bestSequenceRoute: one route per position, or the
\* NoApplicableConversion condition when a position has none.
\* The result says whether the condition was thrown, and the routes if not.
bestSequenceRoute(actual_types, signature) ==
    IF \A i \in 1..Len(actual_types) : RouteExists(actual_types[i], signature[i])
    THEN [thrown |-> FALSE,
          needed |-> [i \in 1..Len(actual_types) |->
                         Route(actual_types[i], signature[i])]]
    ELSE [thrown |-> TRUE, needed |-> <<>>]

\* ConversionRoute::apply(value, gc): the converted value, and the transient
\* objects the route's edges hand to the garbage collection.  The route to
\* F0 allocates nothing.
apply(route, value) ==
    LET made == [of |-> value, as |-> route.to]
    IN  [value |-> made,
         garbage |-> IF route.to = "F0" THEN <<>> ELSE <<made>>]

\* CFunction::returnType(): the return type of the native function with the
\* given signature.  P is a plain type, E a type with an edge conversion.
returnType(signature) ==
    IF signature \in {<<>>, <<"F2">>, <<"F0", "F2">>} THEN "E" ELSE "P"

\* ConversionTable::getEdgeConversion(type): whether the table holds one.
getEdgeConversion(type) == type = "E"

\* CFunction::call(converted_args), when it returns: the raw result of the
\* native function at index alt.
NativeResult(alt) == [how |-> "raw", by |-> alt]
NoResult == [how |-> "none", by |-> MISSED]

\* GarbageCollection: what it holds and what it has released.  cleanUp
\* releases what is held; the destructor does the same at scope exit.
GarbageCollection(held) == [held |-> held, released |-> <<>>]
cleanUp(gc) == [held |-> <<>>, released |-> gc.released \o gc.held]
DestroyLeaking(gc) == gc
DestroyGarbageCollection(gc) == cleanUp(gc)

----------------------------------------------------------------------------
(* Inputs drawn by the specifications. *)

\* Signatures registered with the sets of SpecResolve.
Signatures ==
    { <<>>, <<"F0">>, <<"F1">>, <<"G1">>, <<"F2">>, <<"FN">>,
      <<"F1", "F1">>, <<"F0", "F2">>, <<"F1", "F0">>, <<"G1", "F0">> }

\* Signatures registered with the sets of Spec.
Registered == { <<"F0">>, <<"FN">> }

\* Signatures registered with the set of SpecFingerprint: which of F0 and F2
\* is lighter depends on the insight, F1 and G1 tie, and one signature has
\* another arity.
Fingerprinted == { <<"F0">>, <<"F2">>, <<"F1">>, <<"G1">>, <<"F0", "F2">> }

ArgLists ==
    {<<>>} \cup {<<v>> : v \in Values} \cup {<<v, w>> : v \in Values, w \in Values}

ShortArgLists == {<<v>> : v \in Values}

\* Two actuals that differ in their insight.
PairArgList == <<[type |-> "X", insight |-> 0], [type |-> "X", insight |-> 1]>>

\* One actual more than the argument arrays hold.
LongArgList ==
    [i \in 1..(ARGUMENT_ARRAY_LIMIT + 1) |-> [type |-> "X", insight |-> 0]]

\* How the rest of a dispatched call goes: every conversion and the native
\* function return, or the native function raises, or the conversion of the
\* last actual raises.
Fates == {"returns", "native_raises", "conversion_raises"}

\* What an operation with undefined behaviour does in the build at hand.
UndefinedOutcomes == {"trap", "benign", "adverse"}

----------------------------------------------------------------------------
(* The helpers of overloadedset.cc. *)

\* compareAlternatives (vector version): how the routes 'suggested' compare
\* with the weights 'known'.
compareAlternativesNoShortcut(known, suggested, insights) ==
    LET suggested_weight(i) == totalWeight(suggested[i], insights[i])
        worse_witness ==
            \E i \in 1..Len(known) : WeightLess(known[i], suggested_weight(i))
        better_witness ==
            \E i \in 1..Len(known) :
                /\ ~WeightLess(known[i], suggested_weight(i))
                /\ WeightLess(suggested_weight(i), known[i])
    IN  IF worse_witness # better_witness
        THEN (IF better_witness THEN "OL_BETTER" ELSE "OL_WORSE")
        ELSE (IF better_witness THEN "OL_AMBIGUOUS" ELSE "OL_EQUIVALENT")

compareAlternativesNeverAmbiguous(known, suggested, insights) ==
    LET suggested_weight(i) == totalWeight(suggested[i], insights[i])
        worse_witness ==
            \E i \in 1..Len(known) : WeightLess(known[i], suggested_weight(i))
        better_witness ==
            \E i \in 1..Len(known) :
                /\ ~WeightLess(known[i], suggested_weight(i))
                /\ WeightLess(suggested_weight(i), known[i])
    IN  IF Len(known) = 0 THEN "OL_BETTER"
        ELSE IF worse_witness # better_witness
             THEN (IF better_witness THEN "OL_BETTER" ELSE "OL_WORSE")
             ELSE "OL_EQUIVALENT"

compareAlternatives(known, suggested, insights) ==
    LET suggested_weight(i) == totalWeight(suggested[i], insights[i])
        worse_witness ==
            \E i \in 1..Len(known) : WeightLess(known[i], suggested_weight(i))
        better_witness ==
            \E i \in 1..Len(known) :
                /\ ~WeightLess(known[i], suggested_weight(i))
                /\ WeightLess(suggested_weight(i), known[i])
    IN  IF Len(known) = 0 THEN "OL_BETTER"
        ELSE IF worse_witness # better_witness
             THEN (IF better_witness THEN "OL_BETTER" ELSE "OL_WORSE")
             ELSE (IF better_witness THEN "OL_AMBIGUOUS" ELSE "OL_EQUIVALENT")

\* identicalAlternatives, on the signatures of two non-null handles.
identicalAlternativesLengthOnly(args1, args2) == Len(args1) = Len(args2)

identicalAlternativesNoSizeCheck(args1, args2) ==
    \A i \in 1..Len(args1) : i <= Len(args2) => args1[i] = args2[i]

identicalAlternatives(args1, args2) ==
    /\ Len(args1) = Len(args2)
    /\ \A i \in 1..Len(args1) : args1[i] = args2[i]

rememberWeightsIgnoringInsights(list, insights) ==
    [i \in 1..Len(list) |-> totalWeight(list[i], 0)]

\* rememberWeights (vector version).
rememberWeights(list, insights) ==
    [i \in 1..Len(list) |-> totalWeight(list[i], insights[i])]

\* conversionPossible (vector version).
conversionPossible(weights) ==
    \A i \in 1..Len(weights) : isPossible(weights[i])

----------------------------------------------------------------------------
(* OverloadedSet::Cache.  An entry is a key and the index stored under it; *)
(* the fields orphan and outgrown are history: whether the set that        *)
(* installed the entry has been destroyed since, and whether its candidate *)
(* list has grown since.                                                   *)

Key(group, nargs, args, insights) ==
    [group |-> group, nargs |-> nargs, args |-> args, insights |-> insights]

\* The key of a call by the set at address a with the given actuals.
KeyOf(a, args) ==
    Key(a, Len(args),
        [i \in 1..Len(args) |-> detectType(args[i])],
        [i \in 1..Len(args) |-> detectInsight(args[i])])

KeyIdentityIgnoringInsights(key1, key2) ==
    /\ key1.group = key2.group
    /\ key1.nargs = key2.nargs
    /\ \A i \in 1..key1.nargs : key1.args[i] = key2.args[i]

KeyIdentityFunctor(key1, key2) ==
    /\ key1.group = key2.group
    /\ key1.nargs = key2.nargs
    /\ \A i \in 1..key1.nargs :
          /\ key1.args[i] = key2.args[i]
          /\ key1.insights[i] = key2.insights[i]

\* The type descriptors keys point to, and where they live: the functors
\* see a descriptor as the address &*(key.args[i]).
Descriptors == {"X", "Y"}
AddressOfType(type) == IF type = "X" THEN 3 ELSE 6

\* size_t arithmetic wraps.
SizeRange == 8

RECURSIVE SumOfAddresses(_, _)
SumOfAddresses(key, i) ==
    IF i > key.nargs THEN 0
    ELSE (AddressOfType(key.args[i]) + SumOfAddresses(key, i + 1)) % SizeRange

\* KeyHashFunctor: the group's address plus the addresses of the
\* descriptors; the insights take no part.
KeyHashFunctor(key) == (key.group + SumOfAddresses(key, 1)) % SizeRange

\* The loop of KeyCompareFunctor from position i on.
RECURSIVE LessFrom(_, _, _)
LessFrom(key1, key2, i) ==
    IF i > key1.nargs THEN FALSE
    ELSE IF AddressOfType(key1.args[i]) < AddressOfType(key2.args[i]) THEN TRUE
    ELSE IF AddressOfType(key1.args[i]) > AddressOfType(key2.args[i]) THEN FALSE
    ELSE IF key1.insights[i] < key2.insights[i] THEN TRUE
    ELSE IF key1.insights[i] > key2.insights[i] THEN FALSE
    ELSE LessFrom(key1, key2, i + 1)

KeyCompareIgnoringInsights(key1, key2) ==
    LessFrom([key1 EXCEPT !.insights = [i \in 1..key1.nargs |-> 0]],
             [key2 EXCEPT !.insights = [i \in 1..key2.nargs |-> 0]], 1)

KeyCompareFunctor(key1, key2) ==
    IF key1.group < key2.group THEN TRUE
    ELSE IF key1.group > key2.group THEN FALSE
    ELSE IF key1.nargs < key2.nargs THEN TRUE
    ELSE IF key1.nargs > key2.nargs THEN FALSE
    ELSE LessFrom(key1, key2, 1)

\* Cache::recall: the entries the probe finds (at most one).
Found(entries, key) == {e \in entries : KeyIdentityFunctor(e.key, key)}

recall(entries, key) ==
    IF Found(entries, key) = {} THEN MISSED
    ELSE (CHOOSE e \in Found(entries, key) : TRUE).value

\* What a pointer into the caller's insight buffer reads once the call has
\* returned and its vectors are gone: an insight no actual has.
Scribbled == 2

\* cloneArgsArray and cloneInsightsArray: a new array holding the elements
\* of the caller's.
cloneArgsArray(nargs, args) == [i \in 1..nargs |-> args[i]]

cloneInsightsArrayAliasing(nargs, insights) == [i \in 1..nargs |-> Scribbled]

cloneInsightsArray(nargs, insights) == [i \in 1..nargs |-> insights[i]]

\* Cache::remember: clones the arrays into an owned key and stores the index.
rememberNothing(entries, key, chosenAlternative) == entries

rememberDroppingOthers(entries, key, chosenAlternative) ==
    {[key |-> key, value |-> chosenAlternative,
      orphan |-> FALSE, outgrown |-> FALSE]}

remember(entries, key, chosenAlternative) ==
    LET args_clone == cloneArgsArray(key.nargs, key.args)
        insights_clone == cloneInsightsArray(key.nargs, key.insights)
    IN  {e \in entries : ~KeyIdentityFunctor(e.key, key)}
            \cup {[key |-> Key(key.group, key.nargs, args_clone, insights_clone),
                   value |-> chosenAlternative,
                   orphan |-> FALSE, outgrown |-> FALSE]}

\* Cache::flush.
flushNothing(entries) == entries

flush(entries) == {}

\* The arrays of the keys.  A pair of arrays (args_clone, insights_clone) is
\* known by the key it was cloned for and the thread that cloned it; held
\* says that the key stored in the cache points to it.  cygwin says that
\* the build defines __CYGWIN__.
NoArrays == [cygwin |-> FALSE, arrays |-> {}]

Threads == {1, 2}

\* The two new[] of Cache::remember, by thread t.  The container keeps the
\* key it already holds when an identical one is stored again, so the
\* arrays of the second are held by nothing.
Allocate(owned, entries, key, t) ==
    [owned EXCEPT !.arrays =
        @ \cup {[key |-> key, by |-> t, held |-> Found(entries, key) = {}]}]

\* Cache::dispose(key): delete[] of both arrays, compiled out under
\* __CYGWIN__, where the arrays stay allocated with nothing pointing to them.
dispose(owned, key) ==
    IF owned.cygwin
    THEN [owned EXCEPT !.arrays =
             {IF p.key = key THEN [p EXCEPT !.held = FALSE] ELSE p : p \in @}]
    ELSE [owned EXCEPT !.arrays = {p \in @ : ~(p.key = key /\ p.held)}]

\* Pattern::Cache::flush: disposes the key of every entry.
RECURSIVE DisposeAll(_, _)
DisposeAll(owned, keys) ==
    IF keys = {} THEN owned
    ELSE LET key == CHOOSE k \in keys : TRUE
         IN  DisposeAll(dispose(owned, key), keys \ {key})

----------------------------------------------------------------------------
(* OverloadedSet::call, the full resolution (the else branch of the cache  *)
(* probe): the tournament over m_alternatives and the verdict.             *)

\* The locals of the tournament before the loop.  cached_alt still holds
\* what recall returned, MISSED.  probed lists the alternatives
\* bestSequenceRoute was called for; trapped says the process died.
TournamentStart(nargs) ==
    [lightest |-> NULL,
     cached_alt |-> MISSED,
     lightroutes |-> [i \in 1..nargs |-> NULL],
     lightweight |-> [i \in 1..nargs |-> INFINITE],
     ambiguity_alert |-> FALSE,
     trapped |-> FALSE,
     probed |-> <<>>]

\* identicalAlternatives(lightest, *alt_iter) as the loop calls it.  With
\* lightest still the empty handle the call dereferences a null pointer:
\* the build traps, or reads something and answers either way.
IdenticalToLightest(st, alts, signature, ub) ==
    IF st.lightest = NULL
    THEN [trapped |-> ub = "trap", identical |-> ub = "benign"]
    ELSE [trapped |-> FALSE,
          identical |-> identicalAlternatives(alts[st.lightest + 1], signature)]

\* One iteration of the loop, on the alternative at 0-based index alt.
TournamentStep(st, alts, alt, actual_types, actual_insights, ub) ==
    LET signature == alts[alt + 1]
        nargs == Len(actual_types)
        route == bestSequenceRoute(actual_types, signature)
        tried == [st EXCEPT !.probed = Append(@, alt)]
        verdict == compareAlternatives(st.lightweight, route.needed, actual_insights)
        same == IdenticalToLightest(st, alts, signature, ub)
    IN  IF st.trapped \/ Len(signature) # nargs THEN st
        ELSE IF route.thrown THEN tried
        ELSE IF verdict = "OL_BETTER"
             THEN [tried EXCEPT !.lightest = alt,
                                !.cached_alt = alt,
                                !.lightroutes = route.needed,
                                !.lightweight =
                                    rememberWeights(route.needed, actual_insights),
                                !.ambiguity_alert = FALSE]
        ELSE IF verdict \in {"OL_EQUIVALENT", "OL_AMBIGUOUS"}
             THEN IF same.trapped THEN [tried EXCEPT !.trapped = TRUE]
                  ELSE IF ~same.identical
                       THEN [tried EXCEPT !.ambiguity_alert = TRUE]
                       ELSE tried
        ELSE tried

RECURSIVE TournamentFrom(_, _, _, _, _, _)
TournamentFrom(st, alts, alt, actual_types, actual_insights, ub) ==
    IF alt >= Len(alts) THEN st
    ELSE TournamentFrom(
             TournamentStep(st, alts, alt, actual_types, actual_insights, ub),
             alts, alt + 1, actual_types, actual_insights, ub)

\* The loop over m_alternatives in registration order.
Tournament(alts, actual_types, actual_insights, ub) ==
    TournamentFrom(TournamentStart(Len(actual_types)), alts, 0,
                   actual_types, actual_insights, ub)

\* The verdict after the loop: what the call does with the tournament's end state.
VerdictWithoutChampionCheck(st) ==
    IF st.trapped THEN "Crash"
    ELSE IF ~conversionPossible(st.lightweight) THEN "OverloadingNoMatch"
    ELSE IF st.ambiguity_alert \/ st.lightest = NULL THEN "OverloadingAmbiguity"
    ELSE "Invoked"

VerdictAmbiguityFirst(st) ==
    IF st.trapped THEN "Crash"
    ELSE IF st.ambiguity_alert THEN "OverloadingAmbiguity"
    ELSE IF ~conversionPossible(st.lightweight) \/ st.lightest = NULL
         THEN "OverloadingNoMatch"
    ELSE "Invoked"

Verdict(st) ==
    IF st.trapped THEN "Crash"
    ELSE IF ~conversionPossible(st.lightweight) \/ st.lightest = NULL
         THEN "OverloadingNoMatch"
    ELSE IF st.ambiguity_alert THEN "OverloadingAmbiguity"
    ELSE "Invoked"

\* What the call reports of a tournament that ended in state st.
Outcome(st) ==
    [kind |-> Verdict(st),
     alt |-> IF Verdict(st) = "Invoked" THEN st.cached_alt ELSE MISSED,
     probed |-> st.probed]

\* The outcome of a full resolution.
Resolution(alts, actual_types, actual_insights, ub) ==
    Outcome(Tournament(alts, actual_types, actual_insights, ub))

----------------------------------------------------------------------------
(* OverloadedSet::call, the cache-hit branch.                              *)

\* The index comes from the cache and is used unchecked.  An index past the
\* end of m_alternatives reads a garbage handle; a candidate of another
\* arity makes bestSequenceRoute walk vectors of different lengths.
HitPath(alts, cached_alt, actual_types, ub) ==
    IF cached_alt >= Len(alts)
    THEN [kind |-> IF ub = "trap" THEN "Crash" ELSE "Invoked",
          alt |-> cached_alt, probed |-> <<cached_alt>>]
    ELSE IF Len(alts[cached_alt + 1]) # Len(actual_types)
    THEN [kind |-> CASE ub = "trap" -> "Crash"
                     [] ub = "benign" -> "Invoked"
                     [] OTHER -> "NoApplicableConversion",
          alt |-> cached_alt, probed |-> <<cached_alt>>]
    ELSE [kind |-> IF bestSequenceRoute(actual_types, alts[cached_alt + 1]).thrown
                   THEN "NoApplicableConversion" ELSE "Invoked",
          alt |-> cached_alt, probed |-> <<cached_alt>>]

----------------------------------------------------------------------------
(* OverloadedSet::call, from the conversion of the actuals to the return.  *)

RECURSIVE Flatten(_)
Flatten(seqs) ==
    IF seqs = <<>> THEN <<>> ELSE Head(seqs) \o Flatten(Tail(seqs))

\* convertSequence (vector version): applies the routes in positional order.
\* When a conversion raises, the ones before it have been applied.
convertSequence(original, conversions, fate) ==
    LET n == Len(original)
        done == IF fate = "conversion_raises" /\ n > 0 THEN n - 1 ELSE n
        parts == [i \in 1..done |-> apply(conversions[i], original[i])]
    IN  [thrown |-> done < n,
         converted |-> [i \in 1..done |-> parts[i].value],
         gc |-> Flatten([i \in 1..done |-> parts[i].garbage])]

\* applyEdgeConversions: the value handed back, what MemoryManager::release
\* was called on, and how often the edge conversion was applied.
applyEdgeConversionsAlways(type, value) ==
    [value |-> [value EXCEPT !.how = "edged"],
     released |-> <<value>>, applied |-> 1]

applyEdgeConversionsKeeping(type, value) ==
    IF getEdgeConversion(type)
    THEN [value |-> [value EXCEPT !.how = "edged"],
          released |-> <<>>, applied |-> 1]
    ELSE [value |-> value, released |-> <<>>, applied |-> 0]

applyEdgeConversions(type, value) ==
    IF getEdgeConversion(type)
    THEN [value |-> [value EXCEPT !.how = "edged"],
          released |-> <<value>>, applied |-> 1]
    ELSE [value |-> value, released |-> <<>>, applied |-> 0]

\* One step of a call, as far as its order among the others goes: what was
\* called, and for which position or candidate (0 when for none).
Step(name, at) == [step |-> name, at |-> at]

\* What a call that dispatched nothing leaves behind: gc was constructed
\* empty and is destroyed when the exception leaves.  passed is what the
\* native function was handed, steps the calls made in their order.
NoEpilogue ==
    [native |-> "none", raw |-> NoResult, result |-> NoResult,
     edge_applied |-> 0, mm_released |-> <<>>,
     gc_made |-> <<>>, gc_released |-> <<>>, gc_held |-> <<>>,
     passed |-> <<>>, steps |-> <<>>]

\* The call of the matched alternative: convertSequence, match->call,
\* applyEdgeConversions, gc.cleanUp(), and the destruction of gc when
\* control leaves the function, by return or by exception.
Epilogue(alt, signature, args, needed, fate) ==
    LET conv == convertSequence(args, needed, fate)
        gc == GarbageCollection(conv.gc)
        raw == NativeResult(alt)
        edge == applyEdgeConversions(returnType(signature), raw)
        unwound == DestroyGarbageCollection(gc)
        returned == DestroyGarbageCollection(cleanUp(gc))
        started == IF conv.thrown THEN Len(conv.converted) + 1
                   ELSE Len(conv.converted)
        applies == [i \in 1..started |-> Step("apply", i)]
    IN  IF conv.thrown
        THEN [NoEpilogue EXCEPT !.native = "unreached",
                                !.gc_made = conv.gc,
                                !.gc_released = unwound.released,
                                !.gc_held = unwound.held,
                                !.steps = applies]
        ELSE IF fate = "native_raises"
        THEN [NoEpilogue EXCEPT !.native = "raised",
                                !.gc_made = conv.gc,
                                !.gc_released = unwound.released,
                                !.gc_held = unwound.held,
                                !.passed = conv.converted,
                                !.steps = Append(applies, Step("call", 0))]
        ELSE [native |-> "returned", raw |-> raw, result |-> edge.value,
              edge_applied |-> edge.applied, mm_released |-> edge.released,
              gc_made |-> conv.gc, gc_released |-> returned.released,
              gc_held |-> returned.held,
              passed |-> conv.converted,
              steps |-> applies \o <<Step("call", 0),
                                     Step("applyEdgeConversions", 0),
                                     Step("cleanUp", 0)>>]

----------------------------------------------------------------------------
(* The operations.                                                         *)

NoKey == Key(0, 0, <<>>, <<>>)

\* The record of the most recent operation.  For a call: the set and the
\* actuals, what the frontend and the cache were asked (detected, recalled,
\* hit, entry), the verdict (kind, alt, probed), the end of the dispatched
\* call (ending), and history: the operation before it was a call on the
\* same set with the same actuals that invoked last.before (again).  For a
\* forceRecompute: the keys it dropped from the cache.
NoCall ==
    [op |-> "none", group |-> 0, args |-> <<>>,
     detected |-> 0, recalled |-> FALSE, hit |-> FALSE, entry |-> NoKey,
     orphan |-> FALSE, outgrown |-> FALSE,
     kind |-> "none", alt |-> MISSED, probed |-> <<>>,
     ending |-> NoEpilogue, steps |-> <<>>,
     again |-> FALSE, before |-> MISSED, dropped |-> {}]

\* History kept with the entries: the set at address a was destroyed, or
\* its list grew.
Orphaned(entries, a) ==
    {IF e.key.group = a THEN [e EXCEPT !.orphan = TRUE] ELSE e : e \in entries}

Outgrown(entries, a) ==
    {IF e.key.group = a /\ ~e.orphan THEN [e EXCEPT !.outgrown = TRUE] ELSE e :
        e \in entries}

Held == m_alternatives[1] \o m_alternatives[2]

\* What a thread that is in no call has pending.
NoPending == [group |-> 0, args |-> <<>>, cached_alt |-> MISSED]

Init ==
    /\ m_alternatives = [a \in Addresses |-> <<>>]
    /\ live = [a \in Addresses |-> FALSE]
    /\ actual_cache = {}
    /\ last = NoCall
    /\ heap = NoArrays
    /\ pending = [t \in Threads |-> NoPending]

\* OverloadedSet::OverloadedSet(), at the address the allocator hands out:
\* the lowest free one, so a freed address is used again.
Construct(a) ==
    /\ ~live[a]
    /\ \A b \in Addresses : b < a => live[b]
    /\ live' = [live EXCEPT ![a] = TRUE]
    /\ m_alternatives' = [m_alternatives EXCEPT ![a] = <<>>]
    /\ last' = NoCall
    /\ UNCHANGED <<actual_cache, heap, pending>>

\* OverloadedSet::~OverloadedSet(): the cache is left as it is.
Destroy(a) ==
    /\ live[a]
    /\ live' = [live EXCEPT ![a] = FALSE]
    /\ m_alternatives' = [m_alternatives EXCEPT ![a] = <<>>]
    /\ last' = NoCall
    /\ actual_cache' = Orphaned(actual_cache, a)
    /\ UNCHANGED <<heap, pending>>

addAlternativeAtFront(a, alt) ==
    /\ live[a]
    /\ Len(Held) < MaxAlts
    /\ m_alternatives' = [m_alternatives EXCEPT ![a] = <<alt>> \o @]
    /\ last' = NoCall
    /\ actual_cache' = Outgrown(actual_cache, a)
    /\ UNCHANGED <<live, heap, pending>>

addAlternative(a, alt) ==
    /\ live[a]
    /\ Len(Held) < MaxAlts
    /\ m_alternatives' = [m_alternatives EXCEPT ![a] = Append(@, alt)]
    /\ last' = NoCall
    /\ actual_cache' = Outgrown(actual_cache, a)
    /\ UNCHANGED <<live, heap, pending>>

\* A handle that is not a copy of a registered one: what a read of freed
\* storage may yield.
Dangling == <<"dangling">>

\* OverloadedSet::addAlternatives(more) on the set at address a: std::copy
\* from more.m_alternatives to a back_inserter of m_alternatives.  When more
\* is the set itself, the push_back of the first copy invalidates the
\* iterators std::copy still reads through: the build traps, or reads the
\* old storage and doubles the list, or appends what it finds there.
addAlternatives(a, more, ub) ==
    LET own == m_alternatives[a]
        copied == m_alternatives[more]
        undefined == a = more /\ copied # <<>>
    IN  /\ live[a] /\ live[more]
        /\ copied # <<>>
        /\ Len(Held) + Len(copied) <= MaxAlts
        /\ IF undefined /\ ub = "trap"
           THEN /\ last' = [NoCall EXCEPT !.op = "addAlternatives",
                                         !.group = a, !.kind = "Crash"]
                /\ UNCHANGED <<m_alternatives, actual_cache>>
           ELSE /\ m_alternatives' =
                       [m_alternatives EXCEPT ![a] =
                           IF undefined /\ ub = "adverse"
                           THEN own \o [i \in 1..Len(copied) |-> Dangling]
                           ELSE own \o copied]
                /\ last' = NoCall
                /\ actual_cache' = Outgrown(actual_cache, a)
        /\ UNCHANGED <<live, heap, pending>>

forceRecompute(a) ==
    /\ live[a]
    /\ actual_cache' = flush(actual_cache)
    /\ heap' = DisposeAll(heap, {e.key : e \in actual_cache})
    /\ last' = [NoCall EXCEPT !.op = "forceRecompute", !.group = a,
                              !.dropped = {e.key : e \in actual_cache}]
    /\ UNCHANGED <<m_alternatives, live, pending>>

seekAlternativeLast(a, prototype) ==
    LET alts == m_alternatives[a]
        exact == {i \in 0..(Len(alts) - 1) : alts[i + 1] = prototype}
        found == IF exact = {} THEN NULL
                 ELSE CHOOSE i \in exact : \A j \in exact : i >= j
    IN  /\ live[a]
        /\ last' = [NoCall EXCEPT !.op = "seekAlternative", !.group = a,
                                  !.args = prototype, !.alt = found]
        /\ UNCHANGED <<m_alternatives, live, actual_cache, heap, pending>>

\* OverloadedSet::seekAlternative(prototype) on the set at address a: the
\* first alternative whose signature equals the prototype, or the empty
\* handle.  last.alt holds its index.
seekAlternative(a, prototype) ==
    LET alts == m_alternatives[a]
        exact == {i \in 0..(Len(alts) - 1) : alts[i + 1] = prototype}
        first == IF exact = {} THEN NULL
                 ELSE CHOOSE i \in exact : \A j \in exact : i <= j
    IN  /\ live[a]
        /\ last' = [NoCall EXCEPT !.op = "seekAlternative", !.group = a,
                                  !.args = prototype, !.alt = first]
        /\ UNCHANGED <<m_alternatives, live, actual_cache, heap, pending>>

\* The check of the number of actuals against the limit of the argument arrays.
ExceedsNothing(nargs) == FALSE

ExceedsLimit(nargs) == nargs > ARGUMENT_ARRAY_LIMIT

\* The loop that asks the frontend for the type and the insight of every
\* actual, in the order of its calls.
FingerprintingTypesFirst(args) ==
    [i \in 1..Len(args) |-> Step("detectType", i)]
        \o [i \in 1..Len(args) |-> Step("detectInsight", i)]

Fingerprinting(args) ==
    [k \in 1..(2 * Len(args)) |->
        IF k % 2 = 1 THEN Step("detectType", (k + 1) \div 2)
        ELSE Step("detectInsight", k \div 2)]

\* The calls of a call that passed the arity check, in their order: the
\* frontend, the cache probe, bestSequenceRoute for the candidates probed,
\* remember for the winner of a miss, and the dispatched call.
Steps(args, hit, out, ending) ==
    Fingerprinting(args)
        \o <<Step("recall", 0)>>
        \o [i \in 1..Len(out.probed) |-> Step("bestSequenceRoute", out.probed[i])]
        \o (IF ~hit /\ out.kind = "Invoked"
            THEN <<Step("remember", out.alt)>> ELSE <<>>)
        \o ending.steps

\* The record of a call that passed the arity check: out is what the cache
\* hit or the full resolution came to, ending how the dispatched call went.
CallRecord(a, args, hit, found, out, ending, again) ==
    [op |-> "call", group |-> a, args |-> args,
     detected |-> Len(args), recalled |-> TRUE,
     hit |-> hit,
     entry |-> IF hit THEN found.key ELSE NoKey,
     orphan |-> hit /\ found.orphan,
     outgrown |-> hit /\ found.outgrown,
     kind |-> out.kind, alt |-> out.alt, probed |-> out.probed,
     ending |-> ending,
     steps |-> Steps(args, hit, out, ending),
     again |-> again,
     before |-> IF again THEN last.alt ELSE MISSED,
     dropped |-> {}]

\* The end of the call whose selection came to out: the epilogue when match
\* is a handle of the list with the arity of the call.
Ending(alts, args, actual_types, out, fate) ==
    IF /\ out.kind = "Invoked"
       /\ out.alt < Len(alts)
       /\ Len(alts[out.alt + 1]) = Len(args)
    THEN Epilogue(out.alt, alts[out.alt + 1], args,
                  bestSequenceRoute(actual_types, alts[out.alt + 1]).needed,
                  fate)
    ELSE NoEpilogue

\* OverloadedSet::call(args) on the set at address a.
Call(a, args, ub, fate) ==
    LET nargs == Len(args)
        alts == m_alternatives[a]
        actual_types == [i \in 1..nargs |-> detectType(args[i])]
        actual_insights == [i \in 1..nargs |-> detectInsight(args[i])]
        key == Key(a, nargs, actual_types, actual_insights)
        cached_alt == recall(actual_cache, key)
        hit == cached_alt # MISSED
        found == CHOOSE e \in Found(actual_cache, key) : TRUE
        \* history: the operation before was a call on this set with these
        \* actuals that invoked a candidate
        again == /\ last.op = "call" /\ last.kind = "Invoked"
                 /\ last.group = a /\ last.args = args
    IN  /\ live[a]
        /\ IF ExceedsLimit(nargs)
           THEN /\ last' = [NoCall EXCEPT !.op = "call", !.group = a,
                                         !.args = args,
                                         !.kind = "ArgumentArrayLimitExceeded"]
                /\ UNCHANGED <<actual_cache, heap>>
           ELSE \E out \in {IF hit
                             THEN HitPath(alts, cached_alt, actual_types, ub)
                             ELSE Resolution(alts, actual_types,
                                             actual_insights, ub)} :
                    /\ last' = CallRecord(a, args, hit, found, out,
                                          Ending(alts, args, actual_types,
                                                 out, fate),
                                          again)
                    /\ actual_cache' =
                           IF ~hit /\ out.kind = "Invoked"
                           THEN remember(actual_cache, key, out.alt)
                           ELSE actual_cache
                    /\ heap' =
                           IF ~hit /\ out.kind = "Invoked"
                           THEN Allocate(heap, actual_cache, key, 0)
                           ELSE heap
        /\ UNCHANGED <<m_alternatives, live, pending>>

\* A call of this set with these actuals leaves at most n entries in the
\* cache: it hits an entry, or never reaches the cache, or there is room.
Room(a, args, n) ==
    LET actual_types == [i \in 1..Len(args) |-> detectType(args[i])]
        actual_insights == [i \in 1..Len(args) |-> detectInsight(args[i])]
        key == Key(a, Len(args), actual_types, actual_insights)
    IN  \/ ExceedsLimit(Len(args))
        \/ recall(actual_cache, key) # MISSED
        \/ Cardinality(actual_cache) < n

\* The outcomes of undefined behaviour a call can meet.  On a hit whose
\* index names a candidate of the call's arity nothing is undefined, and one
\* build stands for all.
Builds(a, args) ==
    LET actual_types == [i \in 1..Len(args) |-> detectType(args[i])]
        actual_insights == [i \in 1..Len(args) |-> detectInsight(args[i])]
        key == Key(a, Len(args), actual_types, actual_insights)
        cached_alt == recall(actual_cache, key)
        alts == m_alternatives[a]
    IN  IF /\ cached_alt # MISSED
           /\ cached_alt < Len(alts)
           /\ Len(alts[cached_alt + 1]) = Len(args)
        THEN {"benign"}
        ELSE UndefinedOutcomes

Next ==
    \/ \E a \in Addresses : Construct(a)
    \/ \E a \in Addresses : Destroy(a)
    \/ \E a \in Addresses, alt \in Registered : addAlternative(a, alt)
    \/ \E a \in Addresses : \E more \in Addresses \ {a} :
           addAlternatives(a, more, "benign")
    \/ \E a \in Addresses : forceRecompute(a)
    \/ \E a \in Addresses, prototype \in Registered : seekAlternative(a, prototype)
    \/ \E a \in Addresses, args \in ShortArgLists :
           \E ub \in Builds(a, args) :
               Room(a, args, MaxEntries) /\ Call(a, args, ub, "returns")
    \/ \E a \in Addresses : Call(a, LongArgList, "benign", "returns")

Spec == Init /\ [][Next]_vars

----------------------------------------------------------------------------
(* Full resolution on its own: a set whose registration is over, called    *)
(* once with the cache empty.                                              *)

Lists == UNION {[1..n -> Signatures] : n \in 0..MaxList}

InitResolve ==
    /\ m_alternatives \in {[a \in Addresses |-> IF a = 1 THEN l ELSE <<>>] : l \in Lists}
    /\ live = [a \in Addresses |-> a = 1]
    /\ actual_cache = {}
    /\ last = NoCall
    /\ heap = NoArrays
    /\ pending = [t \in Threads |-> NoPending]

Resolve(args, ub, fate) ==
    /\ actual_cache = {}
    /\ last.op # "call"
    /\ Room(1, args, MaxEntries)
    /\ Call(1, args, ub, fate)

NextResolve ==
    \E args \in ArgLists, ub \in UndefinedOutcomes, fate \in Fates :
        Resolve(args, ub, fate)

SpecResolve == InitResolve /\ [][NextResolve]_vars

----------------------------------------------------------------------------
(* The cache under one set: calls that differ in their insights or their   *)
(* arity, flushes, and candidates registered after calls.                  *)

PrintLists == UNION {[1..n -> Fingerprinted] : n \in 0..MaxAlts}

InitFingerprint ==
    /\ m_alternatives \in
           {[a \in Addresses |-> IF a = 1 THEN l ELSE <<>>] : l \in PrintLists}
    /\ live = [a \in Addresses |-> a = 1]
    /\ actual_cache = {}
    /\ last = NoCall
    /\ heap = NoArrays
    /\ pending = [t \in Threads |-> NoPending]

NextFingerprint ==
    \/ \E args \in ShortArgLists \cup {PairArgList}, fate \in Fates :
           \E ub \in Builds(1, args) :
               Room(1, args, MaxPrints) /\ Call(1, args, ub, fate)
    \/ Call(1, LongArgList, "benign", "returns")
    \/ forceRecompute(1)
    \/ \E alt \in Fingerprinted : addAlternative(1, alt)

SpecFingerprint == InitFingerprint /\ [][NextFingerprint]_vars

----------------------------------------------------------------------------
(* Registration: two sets that take candidates one by one and from each    *)
(* other or themselves, are searched by prototype, and are called.         *)

\* The prototypes looked for: signatures that are registered, and ones that
\* differ from every registered signature in a type or in length.
Prototypes == Registered \cup { <<>>, <<"F2">>, <<"F0", "F0">> }

\* No list holds a handle that is not a copy of a registered one, and the
\* process has not died.
Sound ==
    /\ last.kind # "Crash"
    /\ \A a \in Addresses :
           \A i \in 1..Len(m_alternatives[a]) : m_alternatives[a][i] # Dangling

NextRegister ==
    /\ Sound
    /\ \/ \E a \in Addresses : Construct(a)
       \/ \E a \in Addresses, alt \in Registered : addAlternative(a, alt)
       \/ \E a \in Addresses, more \in Addresses, ub \in UndefinedOutcomes :
              addAlternatives(a, more, ub)
       \/ \E a \in Addresses, prototype \in Prototypes :
              seekAlternative(a, prototype)
       \/ \E a \in Addresses, ub \in UndefinedOutcomes :
              /\ Room(a, <<[type |-> "X", insight |-> 0]>>, MaxEntries)
              /\ Call(a, <<[type |-> "X", insight |-> 0]>>, ub, "returns")

SpecRegister == Init /\ [][NextRegister]_vars

----------------------------------------------------------------------------
(* The helpers on their own: identicalAlternatives on two candidates and   *)
(* compareAlternatives on two route vectors, each applied both ways round. *)

\* A candidate as identicalAlternatives sees it: a handle to a function with
\* a signature and a return type.
Candidates == [signature : Signatures, returns : {"P", "E"}]

InitHelpers ==
    /\ m_alternatives = [a \in Addresses |-> <<>>]
    /\ live = [a \in Addresses |-> FALSE]
    /\ actual_cache = {}
    /\ last = NoCall
    /\ heap = NoArrays
    /\ pending = [t \in Threads |-> NoPending]

\* identicalAlternatives(alt1, alt2) and identicalAlternatives(alt2, alt1).
Identical(alt1, alt2) ==
    /\ last' = [op |-> "identicalAlternatives", alt1 |-> alt1, alt2 |-> alt2,
                result |-> identicalAlternatives(alt1.signature, alt2.signature),
                swapped |-> identicalAlternatives(alt2.signature, alt1.signature)]
    /\ UNCHANGED <<m_alternatives, live, actual_cache, heap, pending>>

\* compareAlternatives of the routes to signature2 against the weights
\* rememberWeights took from the routes to signature1, and the other way
\* round, for actuals of type X with the given insights.
Compare(signature1, signature2, insights) ==
    LET actual_types == [i \in 1..Len(insights) |-> "X"]
        routes1 == bestSequenceRoute(actual_types, signature1).needed
        routes2 == bestSequenceRoute(actual_types, signature2).needed
    IN  /\ Len(signature1) = Len(insights)
        /\ Len(signature2) = Len(insights)
        /\ ~bestSequenceRoute(actual_types, signature1).thrown
        /\ ~bestSequenceRoute(actual_types, signature2).thrown
        /\ last' = [op |-> "compareAlternatives",
                    known |-> rememberWeights(routes1, insights),
                    suggested |-> routes2,
                    insights |-> insights,
                    result |-> compareAlternatives(
                                   rememberWeights(routes1, insights),
                                   routes2, insights),
                    swapped |-> compareAlternatives(
                                    rememberWeights(routes2, insights),
                                    routes1, insights)]
        /\ UNCHANGED <<m_alternatives, live, actual_cache, heap, pending>>

NextHelpers ==
    \/ \E alt1 \in Candidates, alt2 \in Candidates : Identical(alt1, alt2)
    \/ \E signature1 \in Signatures, signature2 \in Signatures,
          insights \in UNION {[1..n -> InsightValues] : n \in 0..2} :
           Compare(signature1, signature2, insights)

SpecHelpers == InitHelpers /\ [][NextHelpers]_vars

----------------------------------------------------------------------------
(* The arrays of the keys, under one set whose callers take turns, in a    *)
(* build with and in one without __CYGWIN__.                               *)

InitCache ==
    /\ m_alternatives \in
           {[a \in Addresses |-> IF a = 1 THEN l ELSE <<>>] : l \in PrintLists}
    /\ live = [a \in Addresses |-> a = 1]
    /\ actual_cache = {}
    /\ last = NoCall
    /\ heap \in {[NoArrays EXCEPT !.cygwin = c] : c \in BOOLEAN}
    /\ pending = [t \in Threads |-> NoPending]

NextCache ==
    \/ \E args \in ShortArgLists \cup {PairArgList} :
           \E ub \in Builds(1, args) :
               Room(1, args, MaxPrints) /\ Call(1, args, ub, "returns")
    \/ forceRecompute(1)

SpecCache == InitCache /\ [][NextCache]_vars

----------------------------------------------------------------------------
(* Two threads in call on one set.  call takes no lock and the cache is    *)
(* one object for the process, so a thread that has probed the cache       *)
(* (line 535) may find, when it comes to store (line 612), that the other  *)
(* thread has stored in between.                                           *)

\* call up to the probe: the fingerprint and cache->recall, by thread t.
Probe(t, a, args) ==
    /\ live[a]
    /\ pending[t] = NoPending
    /\ ~ExceedsLimit(Len(args))
    /\ pending' = [pending EXCEPT ![t] =
                      [group |-> a, args |-> args,
                       cached_alt |-> recall(actual_cache, KeyOf(a, args))]]
    /\ UNCHANGED <<m_alternatives, live, actual_cache, last, heap>>

\* Cache::remember of a key the container already holds, stored by the
\* other thread since this one probed.  The two stores are not ordered by
\* any lock: the process dies, or the container takes the new key and
\* disposes the one it held, or it keeps the key it held and the new
\* arrays are left with nothing pointing to them.
rememberRaced(owned, entries, key, t, race) ==
    IF race = "benign"
    THEN [dispose(owned, key) EXCEPT !.arrays =
             @ \cup {[key |-> key, by |-> t, held |-> TRUE]}]
    ELSE Allocate(owned, entries, key, t)

\* call from the probe on, by thread t: the hit path or the tournament,
\* the store, and the dispatched call.
Resume(t, ub, race, fate) ==
    LET a == pending[t].group
        args == pending[t].args
        alts == m_alternatives[a]
        actual_types == [i \in 1..Len(args) |-> detectType(args[i])]
        actual_insights == [i \in 1..Len(args) |-> detectInsight(args[i])]
        key == KeyOf(a, args)
        cached_alt == pending[t].cached_alt
        hit == cached_alt # MISSED
        found == CHOOSE e \in Found(actual_cache, key) : TRUE
        raced == ~hit /\ Found(actual_cache, key) # {}
    IN  /\ pending[t] # NoPending
        /\ raced \/ race = "benign"
        /\ \E out \in {IF hit
                         THEN HitPath(alts, cached_alt, actual_types, ub)
                         ELSE Resolution(alts, actual_types,
                                         actual_insights, ub)} :
               LET stores == ~hit /\ out.kind = "Invoked"
                   dies == stores /\ raced /\ race = "trap"
               IN  /\ last' =
                          IF dies
                          THEN [NoCall EXCEPT !.op = "call", !.group = a,
                                              !.args = args,
                                              !.recalled = TRUE,
                                              !.probed = out.probed,
                                              !.kind = "Crash"]
                          ELSE CallRecord(a, args, hit, found, out,
                                          Ending(alts, args, actual_types,
                                                 out, fate),
                                          FALSE)
                   /\ actual_cache' =
                          IF stores /\ ~dies
                          THEN remember(actual_cache, key, out.alt)
                          ELSE actual_cache
                   /\ heap' =
                          IF stores /\ ~dies
                          THEN IF raced
                               THEN rememberRaced(heap, actual_cache, key, t, race)
                               ELSE Allocate(heap, actual_cache, key, t)
                          ELSE heap
        /\ pending' = [pending EXCEPT ![t] = NoPending]
        /\ UNCHANGED <<m_alternatives, live>>

NextThreads ==
    \/ \E t \in Threads, args \in ShortArgLists : Probe(t, 1, args)
    \/ \E t \in Threads, ub \in UndefinedOutcomes, race \in UndefinedOutcomes :
           Resume(t, ub, race, "returns")

SpecThreads == InitFingerprint /\ [][NextThreads]_vars

----------------------------------------------------------------------------
(* The functors of the cache's keys on their own, each applied to two keys *)
(* both ways round.                                                        *)

Keys ==
    UNION {[group : Addresses, nargs : {n},
            args : [1..n -> Descriptors],
            insights : [1..n -> InsightValues]] : n \in 0..MaxKeyArgs}

\* Two keys, before the functors are applied to them.
InitKeys ==
    /\ m_alternatives = [a \in Addresses |-> <<>>]
    /\ live = [a \in Addresses |-> FALSE]
    /\ actual_cache = {}
    /\ last \in {[op |-> "Key", key1 |-> key1, key2 |-> key2] :
                    key1 \in Keys, key2 \in Keys}
    /\ heap = NoArrays
    /\ pending = [t \in Threads |-> NoPending]

Functors(key1, key2) ==
    /\ last = [op |-> "Key", key1 |-> key1, key2 |-> key2]
    /\ last' = [op |-> "KeyCompareFunctor", key1 |-> key1, key2 |-> key2,
                less |-> KeyCompareFunctor(key1, key2),
                greater |-> KeyCompareFunctor(key2, key1),
                identical |-> KeyIdentityFunctor(key1, key2),
                hash1 |-> KeyHashFunctor(key1),
                hash2 |-> KeyHashFunctor(key2)]
    /\ UNCHANGED <<m_alternatives, live, actual_cache, heap, pending>>

NextKeys == Functors(last.key1, last.key2)

SpecKeys == InitKeys /\ [][NextKeys]_vars

----------------------------------------------------------------------------
(* Reading the last call: the set it was made on, its actuals, and the     *)
(* candidates of matching arity with their route weights.                  *)

LastAlts == m_alternatives[last.group]
LastTypes == [i \in 1..Len(last.args) |-> detectType(last.args[i])]
LastInsights == [i \in 1..Len(last.args) |-> detectInsight(last.args[i])]

\* The last operation was a call that missed the cache and resolved in full.
FullResolution == last.op = "call" /\ last.recalled /\ ~last.hit

SignatureOf(i) == LastAlts[i + 1]
Matching == {i \in 0..(Len(LastAlts) - 1) : Len(SignatureOf(i)) = Len(last.args)}
Routed(i) == ~bestSequenceRoute(LastTypes, SignatureOf(i)).thrown
WeightsOf(i) ==
    [p \in 1..Len(last.args) |->
        totalWeight(Route(LastTypes[p], SignatureOf(i)[p]), LastInsights[p])]
AllPossible(i) == Routed(i) /\ \A p \in 1..Len(last.args) : WeightsOf(i)[p] < INFINITE

\* w1 is strictly lighter than w2: nowhere heavier, somewhere lighter.
Lighter(w1, w2) ==
    /\ \A p \in 1..Len(w1) : w1[p] <= w2[p]
    /\ \E p \in 1..Len(w1) : w1[p] < w2[p]

SameSignature(i, j) == SignatureOf(i) = SignatureOf(j)

\* a and b are the two candidates of the call's arity, and both have routes.
OnlyContenders(a, b) ==
    /\ a # b
    /\ Matching = {a, b}
    /\ Routed(a) /\ Routed(b)

----------------------------------------------------------------------------
(* The claims.                                                             *)

\* C1: on a full resolution, a candidate of matching arity whose weights are
\* all possible and strictly lighter than those of every other routed
\* candidate of that arity is the one invoked, wherever it is registered.
C1_UniqueLightestInvoked ==
    FullResolution =>
        \A a \in Matching :
            ( /\ AllPossible(a)
              /\ \A b \in Matching \ {a} :
                    ~Routed(b) \/ Lighter(WeightsOf(a), WeightsOf(b)) )
            => (last.kind = "Invoked" /\ last.alt = a)

\* C2: a full resolution that returns to its caller fails with
\* OverloadingNoMatch exactly when no candidate of matching arity has a
\* route vector whose weights are all possible.
C2_NoMatchIffNonePossible ==
    (FullResolution /\ last.kind # "Crash") =>
        ( last.kind = "OverloadingNoMatch"
            <=> ~(\E i \in Matching : AllPossible(i)) )

\* C3: a full resolution that invokes a candidate invokes the lightest one:
\* every other possible candidate of matching arity with another signature
\* is strictly heavier than it.
C3_InvokedIsLightest ==
    (FullResolution /\ last.kind = "Invoked") =>
        \A b \in Matching \ {last.alt} :
            (AllPossible(b) /\ ~SameSignature(b, last.alt))
            => Lighter(WeightsOf(last.alt), WeightsOf(b))

\* The last two operations were calls on the same set with the same actuals
\* and each invoked a candidate.
SecondOfTwoCalls ==
    last.op = "call" /\ last.again /\ last.kind = "Invoked"

\* C4: a call that invokes a candidate, when the operation before it was a
\* call on the same set with the same actuals that invoked one too, is a
\* cache hit, invokes that same candidate, and asks bestSequenceRoute for
\* that candidate alone.
C4_SecondCallHitsCache ==
    SecondOfTwoCalls =>
        /\ last.hit
        /\ last.alt = last.before
        /\ last.probed = <<last.before>>

\* C4: the second of two such calls hit the entry the set itself installed.
C4_Witness ==
    /\ SecondOfTwoCalls
    /\ last.hit /\ ~last.orphan
    /\ last.alt \in Matching
    /\ last.probed = <<last.alt>>

\* C5: the index a call reads from the cache is one a successful tournament
\* of the called set stored for these actuals: the winner of the full
\* resolution over the set's list as it stands or as it stood earlier.
C5_HitReadsOwnWinner ==
    (last.op = "call" /\ last.hit) =>
        \E n \in 0..Len(LastAlts) :
            \E ub \in UndefinedOutcomes :
                LET won == Resolution(SubSeq(LastAlts, 1, n),
                                      LastTypes, LastInsights, ub)
                IN  won.kind = "Invoked" /\ won.alt = last.alt

\* C6: no call on a live set hits an entry that a destroyed set installed.
C6_NoHitOnDestroyedSetsEntry ==
    (last.op = "call" /\ last.hit) => ~last.orphan

\* C7: the outcome of a call that passes the arity check, on a set whose
\* list has not grown since its entries were cached, is the outcome full
\* resolution computes from the list, the table and the actuals, whatever
\* the cache holds and whatever the build does.
C7_OutcomeDeterminedByInputs ==
    (last.op = "call" /\ last.recalled /\ ~last.outgrown) =>
        \A ub \in UndefinedOutcomes :
            LET full == Resolution(LastAlts, LastTypes, LastInsights, ub)
            IN  last.kind = full.kind /\ last.alt = full.alt

\* a and b are the two contenders, with different signatures and equal
\* weight vectors.
TiedStrangers(a, b) ==
    /\ OnlyContenders(a, b)
    /\ ~SameSignature(a, b)
    /\ WeightsOf(a) = WeightsOf(b)

C9_DominatingCandidateWins ==
    FullResolution =>
        \A a, b \in Matching :
            ( /\ OnlyContenders(a, b)
              /\ AllPossible(a)
              /\ Lighter(WeightsOf(a), WeightsOf(b)) )
            => (last.kind = "Invoked" /\ last.alt = a)

\* C10: of two candidates with the same signature and possible weights, of
\* any arity, the first registered is invoked and no ambiguity is raised.
C10_FirstOfIdenticalPairInvoked ==
    FullResolution =>
        \A a, b \in Matching :
            ( /\ OnlyContenders(a, b)
              /\ a < b
              /\ SameSignature(a, b)
              /\ AllPossible(a) )
            => (last.kind = "Invoked" /\ last.alt = a)

\* The indices of the candidates of alts that have nargs formals, in
\* registration order.
ArityMatching(alts, nargs) ==
    SelectSeq([i \in 1..Len(alts) |-> i - 1],
              LAMBDA i : Len(alts[i + 1]) = nargs)

IsPrefix(s, t) == Len(s) <= Len(t) /\ SubSeq(t, 1, Len(s)) = s

\* C11: a call that hits the cache hits an entry stored for its own
\* fingerprint: the same set, the same type handles and the same insights in
\* every position; an entry stored under other insights is never shared.
C11_HitOnOwnFingerprintOnly ==
    (last.op = "call" /\ last.hit) =>
        last.entry = Key(last.group, Len(last.args), LastTypes, LastInsights)

\* C11: the set holds an entry for the same types under other insights, and
\* the last call missed it, resolved on its own and invoked another candidate.
C11_Witness ==
    /\ last.op = "call" /\ ~last.hit /\ last.kind = "Invoked"
    /\ \E e \in actual_cache :
          /\ e.key.group = last.group /\ ~e.orphan
          /\ e.key.args = LastTypes
          /\ e.key.insights # LastInsights
          /\ e.value # last.alt

C13_ArityGateFirst ==
    [][ (last'.op = "call" /\ Len(last'.args) > ARGUMENT_ARRAY_LIMIT) =>
            /\ last'.kind = "ArgumentArrayLimitExceeded"
            /\ last'.detected = 0
            /\ ~last'.recalled
            /\ actual_cache' = actual_cache
            /\ m_alternatives' = m_alternatives ]_vars

\* C13: a call with 13 actuals was rejected while the cache held an entry
\* of the called set.
C13_Witness ==
    /\ last.op = "call"
    /\ Len(last.args) = ARGUMENT_ARRAY_LIMIT + 1
    /\ last.kind = "ArgumentArrayLimitExceeded"
    /\ \E e \in actual_cache : e.key.group = last.group /\ ~e.orphan

C15_NoApplicableConversionContained ==
    last.op = "call" => last.kind # "NoApplicableConversion"

\* C16: when a call is over, by return or by any exception, the garbage
\* collection has released the transient values of the conversions applied
\* during the call, each once and nothing else, and holds none.
C16_GarbageReleasedOnce ==
    last.op = "call" =>
        /\ last.ending.gc_released = last.ending.gc_made
        /\ last.ending.gc_held = <<>>

\* C16: the native function raised after conversions had made transient
\* values, and they were released.
C16_Witness ==
    /\ last.op = "call"
    /\ last.ending.native = "raised"
    /\ last.ending.gc_made # <<>>
    /\ last.ending.gc_released = last.ending.gc_made

\* C17: a full resolution of a call without actuals on a set with a
\* candidate without formals invokes such a candidate, and bestSequenceRoute
\* is asked for no candidate that has formals.
C17_NullaryDispatch ==
    (FullResolution /\ last.args = <<>> /\ Matching # {}) =>
        /\ last.kind = "Invoked"
        /\ last.alt \in Matching
        /\ \A i \in 1..Len(last.probed) : last.probed[i] \in Matching

\* C17: a nullary candidate was invoked in a set that also holds a candidate
\* with formals.
C17_Witness ==
    /\ FullResolution /\ last.args = <<>>
    /\ last.kind = "Invoked" /\ last.alt \in Matching
    /\ \E i \in 0..(Len(LastAlts) - 1) : i \notin Matching

\* C18: when the invoked candidate returns and its return type has no edge
\* conversion, the call returns the native result itself and
\* MemoryManager::release is called on nothing.
C18_NoEdgeReturnsNativeResult ==
    ( /\ last.op = "call" /\ last.ending.native = "returned"
      /\ ~getEdgeConversion(returnType(SignatureOf(last.alt))) ) =>
        /\ last.ending.result = last.ending.raw
        /\ last.ending.mm_released = <<>>

\* C18: a candidate with a plain return type returned.
C18_Witness ==
    /\ last.op = "call" /\ last.ending.native = "returned"
    /\ ~getEdgeConversion(returnType(SignatureOf(last.alt)))
    /\ last.ending.result = NativeResult(last.alt)

\* C19: an edge conversion is applied exactly when the native function
\* returned and its return type has one; it is then applied once to the raw
\* result, the raw result is released once, and the replacement is what the
\* call returns.  No call that fails selection or whose native function
\* raises applies one.
C19_EdgeOnlyAfterReturn ==
    last.op = "call" =>
        LET e == last.ending
            due == /\ e.native = "returned"
                   /\ getEdgeConversion(returnType(SignatureOf(last.alt)))
        IN  /\ e.edge_applied = (IF due THEN 1 ELSE 0)
            /\ due => /\ e.mm_released = <<e.raw>>
                      /\ e.raw = NativeResult(last.alt)
                      /\ e.result = [e.raw EXCEPT !.how = "edged"]
            /\ ~due => e.mm_released = <<>>

\* C19: a candidate whose return type has an edge conversion returned.
C19_Witness ==
    /\ last.op = "call" /\ last.ending.native = "returned"
    /\ last.ending.edge_applied = 1
    /\ last.ending.mm_released = <<NativeResult(last.alt)>>

\* C20: in every step that keeps a set alive its old list is a prefix of its
\* new one; call, seekAlternative and forceRecompute leave every list as it
\* is; addAlternative(c) makes the list the old one followed by c.
C20_ListAppendOnly ==
    [][ /\ \A a \in Addresses :
              (live[a] /\ live'[a]) =>
                  IsPrefix(m_alternatives[a], m_alternatives'[a])
        /\ last'.op \in {"call", "seekAlternative", "forceRecompute"} =>
              m_alternatives' = m_alternatives
        /\ \A a \in Addresses, c \in Registered :
              addAlternative(a, c) =>
                  m_alternatives'[a] = Append(m_alternatives[a], c) ]_vars

\* C20: a set with two different candidates, in the order of registration,
\* after a call or a seekAlternative.
C20_Witness ==
    /\ last.op \in {"call", "seekAlternative"}
    /\ live[last.group]
    /\ m_alternatives[last.group] = <<(<<"F0">>), (<<"FN">>)>>

\* C21: addAlternatives(other) makes the receiver's list its old list
\* followed by other's list, and leaves other's list as it was; when other
\* is the receiver, the receiver ends with its old list followed by a copy
\* of it.  No addAlternatives ends the process.
C21_AppendsOthersList ==
    [][ \A a \in Addresses, more \in Addresses, ub \in UndefinedOutcomes :
            addAlternatives(a, more, ub) =>
                /\ last'.kind # "Crash"
                /\ m_alternatives'[a] = m_alternatives[a] \o m_alternatives[more]
                /\ more # a => m_alternatives'[more] = m_alternatives[more] ]_vars

\* The indexes of the candidates of the list whose signature has the length
\* of the prototype and the same type at every position.
ExactMatches(alts, prototype) ==
    {i \in 0..(Len(alts) - 1) :
        /\ Len(alts[i + 1]) = Len(prototype)
        /\ \A p \in 1..Len(prototype) : alts[i + 1][p] = prototype[p]}

\* C22: seekAlternative(prototype) returns the lowest-index candidate whose
\* signature is element-wise identical to the prototype and of the same
\* length, the null handle when there is none, and changes neither the
\* candidate lists nor the cache.
C22_SeekFindsFirstExact ==
    [][ last'.op = "seekAlternative" =>
            LET exact == ExactMatches(m_alternatives[last'.group], last'.args)
            IN  /\ exact = {} => last'.alt = NULL
                /\ exact # {} =>
                       /\ last'.alt \in exact
                       /\ \A j \in exact : last'.alt <= j
                /\ m_alternatives' = m_alternatives
                /\ actual_cache' = actual_cache ]_vars

\* C22: a seekAlternative that found the first of two candidates with the
\* prototype's signature, with an entry in the cache.
C22_Witness ==
    /\ last.op = "seekAlternative"
    /\ last.args = <<"F0">>
    /\ m_alternatives[last.group] = <<(<<"F0">>), (<<"F0">>)>>
    /\ last.alt = 0
    /\ actual_cache # {}

\* C22: a seekAlternative that returned the null handle from a list whose
\* candidate differs from the prototype only in length.
C22_WitnessNull ==
    /\ last.op = "seekAlternative"
    /\ last.args = <<"F0", "F0">>
    /\ m_alternatives[last.group] = <<(<<"F0">>)>>
    /\ last.alt = NULL

\* C23: identicalAlternatives is true exactly when the two signatures have
\* the same length and the same type at every position, whatever the return
\* types; it gives the same answer both ways round, is true of a candidate
\* and itself, and is transitive.
C23_IdenticalIsSignatureEquality ==
    /\ last.op = "identicalAlternatives" =>
           LET args1 == last.alt1.signature
               args2 == last.alt2.signature
               same == /\ Len(args1) = Len(args2)
                       /\ \A p \in 1..Len(args1) : args1[p] = args2[p]
           IN  /\ last.result = same
               /\ last.swapped = last.result
               /\ last.alt1 = last.alt2 => last.result
    /\ \A a \in Signatures, b \in Signatures, c \in Signatures :
           (identicalAlternatives(a, b) /\ identicalAlternatives(b, c))
               => identicalAlternatives(a, c)

\* C23: two candidates with the same two-formal signature and different
\* return types were found identical.
C23_Witness ==
    /\ last.op = "identicalAlternatives"
    /\ Len(last.alt1.signature) = 2
    /\ last.alt1.signature = last.alt2.signature
    /\ last.alt1.returns # last.alt2.returns
    /\ last.result

\* The verdict with the two vectors swapped.
Flipped(verdict) ==
    CASE verdict = "OL_BETTER" -> "OL_WORSE"
      [] verdict = "OL_WORSE" -> "OL_BETTER"
      [] OTHER -> verdict

TournamentAfter(n, ub) ==
    Tournament(SubSeq(LastAlts, 1, n), LastTypes, LastInsights, ub)

RoutesOf(i) ==
    [p \in 1..Len(last.args) |-> Route(LastTypes[p], SignatureOf(i)[p])]

\* C25: at every point of a tournament at which a champion has been adopted,
\* the champion-weights are the weights of the champion's own routes under
\* the call's insights, the champion-routes are the champion's routes, and
\* the index to be cached is the champion's index.
C25_ChampionStateIsChampions ==
    FullResolution =>
        \A ub \in UndefinedOutcomes, n \in 0..Len(LastAlts) :
            LET st == TournamentAfter(n, ub)
            IN  st.lightest # NULL =>
                    /\ st.lightest \in Matching
                    /\ st.lightest < n
                    /\ st.lightweight = WeightsOf(st.lightest)
                    /\ st.lightroutes = RoutesOf(st.lightest)
                    /\ st.cached_alt = st.lightest

\* C25: a tournament that ended with a champion and had met, after adopting
\* it, a candidate lighter than the champion at some position: the
\* champion-weights are not the minimum over the candidates seen.
C25_Witness ==
    /\ FullResolution
    /\ Len(last.args) = 2
    /\ \E ub \in UndefinedOutcomes :
           LET st == TournamentAfter(Len(LastAlts), ub)
           IN  /\ st.lightest # NULL
               /\ \E j \in Matching :
                      /\ j > st.lightest
                      /\ Routed(j)
                      /\ \E p \in 1..2 : WeightsOf(j)[p] < st.lightweight[p]

\* Candidate j was processed after the champion of st was adopted, tied
\* with it (EQUIVALENT or AMBIGUOUS) and does not have its signature.
TiedAfter(st, j) ==
    /\ j \in Matching
    /\ j > st.lightest
    /\ Routed(j)
    /\ compareAlternatives(WeightsOf(st.lightest), RoutesOf(j), LastInsights)
           \in {"OL_EQUIVALENT", "OL_AMBIGUOUS"}
    /\ ~identicalAlternatives(SignatureOf(st.lightest), SignatureOf(j))

\* The outcomes of undefined behaviour under which the last call's full
\* resolution comes to what the call did.
ObservedBuilds ==
    {ub \in UndefinedOutcomes :
        Resolution(LastAlts, LastTypes, LastInsights, ub) =
            [kind |-> last.kind, alt |-> last.alt, probed |-> last.probed]}

\* C26: at the end of a tournament the ambiguity flag is set exactly when
\* some candidate processed after the final champion was adopted tied with
\* it and is not identical to it; after every step that adopts a champion
\* the flag is clear.
C26_FlagIffTieAfterChampion ==
    FullResolution =>
        \A ub \in ObservedBuilds :
            LET end == TournamentAfter(Len(LastAlts), ub)
            IN  ~end.trapped =>
                    /\ end.ambiguity_alert <=>
                           /\ end.lightest # NULL
                           /\ \E j \in 0..(Len(LastAlts) - 1) : TiedAfter(end, j)
                    /\ \A n \in 1..Len(LastAlts) :
                           TournamentAfter(n, ub).lightest = n - 1 =>
                               ~TournamentAfter(n, ub).ambiguity_alert

\* C27: a call that missed the cache and selected a winner adds one entry,
\* its key with the winner's index, and nothing else, whether the
\* conversions and the native function then return or raise; every other
\* call (over the argument limit, no match, ambiguity, cache hit) leaves the
\* cache as it was; no entry ever holds MISSED or IMPOSSIBLE.
C27_CacheWrittenOnlyByWinner ==
    [][ last'.op = "call" =>
            LET won == last'.recalled /\ ~last'.hit /\ last'.kind = "Invoked"
            IN  /\ won =>
                       /\ last'.alt \in 0..(Len(m_alternatives[last'.group]) - 1)
                       /\ actual_cache' = actual_cache \cup
                              {[key |-> KeyOf(last'.group, last'.args),
                                value |-> last'.alt,
                                orphan |-> FALSE, outgrown |-> FALSE]}
                /\ ~won => actual_cache' = actual_cache
                /\ \A e \in actual_cache' : e.value \notin {MISSED, IMPOSSIBLE} ]_vars

\* C27: a call that missed a cache holding another entry, selected a winner
\* and saw the native function raise; the winner's entry is in the cache.
C27_Witness ==
    /\ last.op = "call" /\ ~last.hit /\ last.kind = "Invoked"
    /\ last.ending.native = "raised"
    /\ Cardinality(actual_cache) = 2
    /\ \E e \in actual_cache :
           e.key = KeyOf(last.group, last.args) /\ e.value = last.alt

\* C27: the same with a conversion that raised before the native call.
C27_WitnessConversion ==
    /\ last.op = "call" /\ ~last.hit /\ last.kind = "Invoked"
    /\ last.ending.native = "unreached"
    /\ \E e \in actual_cache :
           e.key = KeyOf(last.group, last.args) /\ e.value = last.alt

\* C27: a call that ended in OverloadingAmbiguity and left no entry.
C27_WitnessAmbiguity ==
    /\ last.op = "call" /\ last.kind = "OverloadingAmbiguity"
    /\ actual_cache = {}

\* C28: on a cache hit bestSequenceRoute is called once, for the cached
\* candidate and no other, the call never ends in no-match or ambiguity, and
\* the arguments are converted for that candidate; on a miss
\* bestSequenceRoute is called once for each candidate of the call's arity,
\* in registration order, and for no candidate of another arity.
C28_RoutesComputedOncePerCandidate ==
    (last.op = "call" /\ last.recalled) =>
        IF last.hit
        THEN /\ \E e \in actual_cache :
                    e.key = last.entry /\ e.value = last.alt
             /\ last.probed = <<last.alt>>
             /\ last.kind \notin {"OverloadingNoMatch", "OverloadingAmbiguity"}
             /\ last.kind = "Invoked" => last.ending.native # "none"
        ELSE last.probed = ArityMatching(LastAlts, Len(last.args))

\* Where in the last call's steps the calls of the given name are.
At(name) == {k \in 1..Len(last.steps) : last.steps[k].step = name}

\* C29: in a call that passed the arity check the frontend is asked for the
\* type and then the insight of each actual in positional order, all of it
\* before the cache probe; the probe precedes every bestSequenceRoute; the
\* conversions run in positional order and are complete before the native
\* call, which gets the converted value of position i as argument i; the
\* edge conversion and the release of the garbage come after the native
\* call, and only when it returned.
C29_StepOrder ==
    (last.op = "call" /\ last.recalled) =>
        LET n == Len(last.args)
            s == last.steps
        IN  /\ Len(s) >= 2 * n + 1
            /\ \A i \in 1..n :
                   /\ s[2 * i - 1] = Step("detectType", i)
                   /\ s[2 * i] = Step("detectInsight", i)
            /\ At("detectType") \cup At("detectInsight") = 1..(2 * n)
            /\ At("recall") = {2 * n + 1}
            /\ \A k \in At("bestSequenceRoute") : k > 2 * n + 1
            /\ \A j \in At("apply"), k \in At("apply") :
                   j < k <=> s[j].at < s[k].at
            /\ \A c \in At("call") :
                   /\ \A k \in At("apply") : k < c
                   /\ {s[k].at : k \in At("apply")} = 1..n
                   /\ Len(last.ending.passed) = n
                   /\ \A i \in 1..n :
                          last.ending.passed[i] =
                              apply(Route(LastTypes[i], SignatureOf(last.alt)[i]),
                                    last.args[i]).value
            /\ last.ending.native \in {"returned", "raised"} <=> At("call") # {}
            /\ \A k \in At("applyEdgeConversions") \cup At("cleanUp") :
                   /\ last.ending.native = "returned"
                   /\ \A c \in At("call") : c < k

\* C29: a cache hit with two actuals whose native function returned a value
\* that got an edge conversion.
C29_Witness ==
    /\ last.op = "call" /\ last.hit
    /\ Len(last.args) = 2
    /\ last.ending.native = "returned"
    /\ last.ending.edge_applied = 1
    /\ Len(last.steps) = 11

\* How the last call ended, as its caller sees it.
Endings ==
    { e \in {"result", "ArgumentArrayLimitExceeded", "OverloadingNoMatch",
             "OverloadingAmbiguity", "native exception"} :
        CASE e = "result" ->
                 last.kind = "Invoked" /\ last.ending.native = "returned"
          [] e = "native exception" ->
                 last.kind = "Invoked" /\ last.ending.native = "raised"
          [] OTHER -> last.kind = e }

\* C30: a call whose conversions return visits no candidate twice and ends
\* in exactly one of: a returned result, ArgumentArrayLimitExceeded,
\* OverloadingNoMatch, OverloadingAmbiguity, the exception raised by the
\* native callable.
C30_CallEndsInOneOfFive ==
    (last.op = "call" /\ last.ending.native # "unreached") =>
        /\ \A j \in 1..Len(last.probed), k \in 1..Len(last.probed) :
               last.probed[j] = last.probed[k] => j = k
        /\ Cardinality(Endings) = 1

\* The key holds the fingerprint of a call by the set at a with these actuals.
HoldsFingerprint(key, a, args) ==
    /\ key.group = a
    /\ key.nargs = Len(args)
    /\ \A i \in 1..Len(args) :
           /\ key.args[i] = detectType(args[i])
           /\ key.insights[i] = detectInsight(args[i])

\* C31: the key a winning miss stores holds the types and insights of the
\* call after the call has returned and its buffers are gone; no later
\* step but a flush changes or drops a stored key; a later call whose
\* fingerprint, built in other buffers, is that of a stored key hits; and a
\* call that hits or selects nothing stores nothing.
C31_StoredKeysArePrivateCopies ==
    [][ /\ (last'.op = "call" /\ last'.recalled /\ ~last'.hit
                              /\ last'.kind = "Invoked") =>
               \E e \in actual_cache' :
                   HoldsFingerprint(e.key, last'.group, last'.args)
        /\ last'.op # "forceRecompute" =>
               \A e \in actual_cache :
                   \E f \in actual_cache' : f.key = e.key /\ f.value = e.value
        /\ (/\ last'.op = "call" /\ last'.recalled
            /\ \E e \in actual_cache :
                   HoldsFingerprint(e.key, last'.group, last'.args)) =>
               last'.hit
        /\ (last'.op = "call" /\ (last'.hit \/ last'.kind # "Invoked")) =>
               actual_cache' = actual_cache ]_vars

\* C31: a call hit the entry of its fingerprint after a call with another
\* fingerprint had stored an entry of its own.
C31_Witness ==
    /\ last.op = "call" /\ last.hit /\ last.kind = "Invoked"
    /\ \E e \in actual_cache, f \in actual_cache :
           /\ HoldsFingerprint(e.key, last.group, last.args)
           /\ ~HoldsFingerprint(f.key, last.group, last.args)
           /\ f.key.nargs = e.key.nargs

\* C32: every pair of arrays remember allocated and nothing has freed
\* belongs to an entry of the cache, every entry's pair is still allocated,
\* and after a flush no pair remains allocated.
C32_OwnedArraysLiveWithEntries ==
    /\ \A p \in heap.arrays :
           p.held /\ \E e \in actual_cache : e.key = p.key
    /\ \A e \in actual_cache :
           \E p \in heap.arrays : p.key = e.key /\ p.held
    /\ last.op = "forceRecompute" => heap.arrays = {}

\* With the tournament's locals st, the loop's iteration on candidate i
\* reaches the call of identicalAlternatives(lightest, *alt_iter).
ConsultsChampion(st, i) ==
    /\ ~st.trapped
    /\ i \in Matching
    /\ Routed(i)
    /\ compareAlternatives(st.lightweight, RoutesOf(i), LastInsights)
           \in {"OL_EQUIVALENT", "OL_AMBIGUOUS"}

\* C33: whenever an iteration of the tournament evaluates
\* identicalAlternatives on the champion, a champion has been adopted; this
\* includes the first applicable candidate whose weights are all INFINITE.
C33_ChampionConsultedOnlyWhenPresent ==
    FullResolution =>
        \A ub \in ObservedBuilds, n \in 1..Len(LastAlts) :
            ConsultsChampion(TournamentAfter(n - 1, ub), n - 1) =>
                TournamentAfter(n - 1, ub).lightest # NULL

\* The registered list in another order.
Orders(n) == {f \in [1..n -> 1..n] : \A i, j \in 1..n : f[i] = f[j] => i = j}
Permuted(alts, f) == [i \in 1..Len(alts) |-> alts[f[i]]]

\* What a caller sees of a full resolution over alts: how it ended, and
\* the signature of the candidate invoked.
Seen(alts, ub) ==
    LET out == Resolution(alts, LastTypes, LastInsights, ub)
    IN  [kind |-> out.kind,
         signature |-> IF out.kind = "Invoked" THEN alts[out.alt + 1] ELSE <<>>]

\* C34: for a registered list of three or more alternatives, a full
\* resolution ends the same way (the same winner's signature, no match, or
\* ambiguity) under every permutation of the list.
C34_RegistrationOrderInvariance ==
    FullResolution /\ Len(LastAlts) >= 3 =>
        \A ub \in ObservedBuilds, f \in Orders(Len(LastAlts)) :
            Seen(Permuted(LastAlts, f), ub) = Seen(LastAlts, ub)

\* C35: a call answered from the cache ends as a full resolution over the
\* set's list as it now stands would end, also when candidates were
\* registered after the entry was installed.
C35_HitRefinesFullResolution ==
    (last.op = "call" /\ last.hit) =>
        \E ub \in UndefinedOutcomes :
            LET full == Resolution(LastAlts, LastTypes, LastInsights, ub)
            IN  last.kind = full.kind /\ last.alt = full.alt

\* C36: every entry of the cache whose key names a live set holds an index
\* into that set's list, of a candidate whose signature has the key's
\* arity, and neither MISSED nor IMPOSSIBLE.
C36_EntriesIndexLiveSetsCandidates ==
    \A e \in actual_cache :
        live[e.key.group] =>
            /\ e.value \notin {MISSED, IMPOSSIBLE}
            /\ e.value \in 0..(Len(m_alternatives[e.key.group]) - 1)
            /\ Len(m_alternatives[e.key.group][e.value + 1]) = e.key.nargs

\* No thread is inside call.
Quiet == \A t \in Threads : pending[t] = NoPending

\* C37: with calls of two threads interleaved in any way, the cache holds
\* at most one entry for a key, the entry's value is the candidate a full
\* resolution of the key's fingerprint selects, and once both calls have
\* returned every pair of key arrays allocated is pointed to by an entry.
C37_ConcurrentMissesConverge ==
    /\ \A e \in actual_cache :
           /\ Cardinality(Found(actual_cache, e.key)) = 1
           /\ \E ub \in UndefinedOutcomes :
                  LET full == Resolution(m_alternatives[e.key.group],
                                         e.key.args, e.key.insights, ub)
                  IN  full.kind = "Invoked" /\ full.alt = e.value
    /\ last.kind # "Crash" /\ Quiet =>
           \A p \in heap.arrays :
               p.held /\ \E e \in actual_cache : e.key = p.key

\* The tournament ended in st with no champion, or with a champion one of
\* whose weights is INFINITE.
ImpossibleChampion(st) ==
    \/ st.lightest = NULL
    \/ \E p \in 1..Len(st.lightweight) : st.lightweight[p] = INFINITE

\* C38: a tournament that ends with the ambiguity flag set and with no
\* champion or an impossible one makes the call fail with
\* OverloadingNoMatch; a call fails with OverloadingAmbiguity only when its
\* tournament ended with a champion all of whose weights are possible.
C38_NoMatchBeforeAmbiguity ==
    FullResolution =>
        \A ub \in ObservedBuilds :
            LET end == TournamentAfter(Len(LastAlts), ub)
            IN  ~end.trapped =>
                    /\ (end.ambiguity_alert /\ ImpossibleChampion(end))
                           => last.kind = "OverloadingNoMatch"
                    /\ last.kind = "OverloadingAmbiguity"
                           => end.ambiguity_alert /\ ~ImpossibleChampion(end)

\* C38: a tournament ended with a champion that has an INFINITE weight and
\* with the flag set, and the call failed with OverloadingNoMatch.
C38_Witness ==
    /\ FullResolution
    /\ last.kind = "OverloadingNoMatch"
    /\ \E ub \in ObservedBuilds :
           LET end == TournamentAfter(Len(LastAlts), ub)
           IN  /\ end.lightest # NULL
               /\ end.ambiguity_alert
               /\ ImpossibleChampion(end)

\* C39: KeyCompareFunctor is a strict total order on keys: no key is less
\* than itself, less is transitive, it orders by group, then arity, then
\* position by position by descriptor address and insight; two keys are
\* unordered exactly when KeyIdentityFunctor holds of them; and keys that
\* KeyIdentityFunctor holds of have the same KeyHashFunctor value.
C39_KeyFunctorsConsistent ==
    last.op = "KeyCompareFunctor" =>
        /\ ~KeyCompareFunctor(last.key1, last.key1)
        /\ ~(last.less /\ last.greater)
        /\ \A key3 \in Keys :
               (last.less /\ KeyCompareFunctor(last.key2, key3))
                   => KeyCompareFunctor(last.key1, key3)
        /\ last.key1.group < last.key2.group => last.less
        /\ (last.key1.group = last.key2.group
               /\ last.key1.nargs < last.key2.nargs) => last.less
        /\ (~last.less /\ ~last.greater) <=> last.identical
        /\ last.identical => last.hash1 = last.hash2

\* C39: two keys that differ in an insight only: the hash does not tell
\* them apart, the order and the identity do.
C39_Witness ==
    /\ last.op = "KeyCompareFunctor"
    /\ last.key1.group = last.key2.group
    /\ last.key1.nargs = MaxKeyArgs
    /\ last.key1.args = last.key2.args
    /\ last.key1.insights # last.key2.insights
    /\ last.hash1 = last.hash2
    /\ last.less /\ ~last.greater /\ ~last.identical

====
